---- MODULE Spec2Model ----
(***************************************************************************)
(* SupplyTransactionModal (packages/nextjs/app/lending/components/modals)  *)
(* as a state machine: the component's useState cells, the props it        *)
(* receives, the state of the useApproval / useSupply hooks it reads, and  *)
(* one action per event handler or asynchronous result.  An action         *)
(* includes the effects (useEffect) that the resulting render triggers.    *)
(*                                                                         *)
(* Strings the user types and the balance prop are sequences of one-       *)
(* character strings; parseFloat is computed on them.  Numbers are held in *)
(* units of one tenth.                                                     *)
(***************************************************************************)
EXTENDS Integers, Sequences, FiniteSets, TLC

\* ------------------------------------------------------------------ bounds
\* amounts and balances range over 0, 0.5, 1, ... , MaxStep * 0.5
MaxStep == 2

\* calls of one kind counted as in flight at the same time
MaxInFlight == 2

\* balance updates queued between two renders of DepositTable
MaxPending == 2

\* clicks on "Refresh all data" followed
MaxRefresh == 2

\* ------------------------------------------------------- numbers and text
\* one fractional digit is kept: a number n is held as the integer 10 * n

Null == "null"
Undefined == "undefined"

NaN == [nan |-> TRUE, v |-> 0]
Num(n) == [nan |-> FALSE, v |-> n]

DigitChars == <<"0", "1", "2", "3", "4", "5", "6", "7", "8", "9">>

IsDigit(c) == \E i \in 1..10 : DigitChars[i] = c

DigitVal(c) == (CHOOSE i \in 1..10 : DigitChars[i] = c) - 1

\* number of consecutive digits of s starting at position i
RECURSIVE DigitRun(_, _)
DigitRun(s, i) ==
    IF i <= Len(s) /\ IsDigit(s[i]) THEN 1 + DigitRun(s, i + 1) ELSE 0

\* value of the digits s[i .. i+n-1] read as a decimal integer
RECURSIVE DigitsValue(_, _, _)
DigitsValue(s, i, n) ==
    IF n = 0 THEN 0
    ELSE DigitsValue(s, i, n - 1) * 10 + DigitVal(s[i + n - 1])

\* parseFloat: optional sign, digits, optional "." and digits; the longest
\* such prefix is converted, anything after it is ignored; NaN when the
\* prefix holds no digit.  The fraction is kept to one digit.
parseFloat(s) ==
    LET signed == Len(s) >= 1 /\ s[1] \in {"-", "+"}
        neg == Len(s) >= 1 /\ s[1] = "-"
        start == IF signed THEN 2 ELSE 1
        nInt == DigitRun(s, start)
        dot == start + nInt
        hasDot == dot <= Len(s) /\ s[dot] = "."
        nFrac == IF hasDot THEN DigitRun(s, dot + 1) ELSE 0
        whole == DigitsValue(s, start, nInt)
        frac == IF nFrac >= 1 THEN DigitVal(s[dot + 1]) ELSE 0
        mag == whole * 10 + frac
    IN  IF nInt + nFrac = 0 THEN NaN
        ELSE Num(IF neg THEN 0 - mag ELSE mag)

isNaN(x) == x.nan

\* JavaScript comparisons: every comparison with NaN is false
Lt(x, y) == ~x.nan /\ ~y.nan /\ x.v < y.v
Gt(x, y) == ~x.nan /\ ~y.nan /\ x.v > y.v
StrictEq(x, y) == ~x.nan /\ ~y.nan /\ x.v = y.v

Zero == Num(0)

\* decimal text of a non-negative integer
RECURSIVE IntText(_)
IntText(n) ==
    IF n < 10 THEN <<DigitChars[n + 1]>>
    ELSE IntText(n \div 10) \o <<DigitChars[(n % 10) + 1]>>

\* the text of the number held as n (n >= 0), as a wallet balance or an
\* <input type="number"> presents it: "1", "0.5", "1.5"
NumberText(n) ==
    IF n % 10 = 0 THEN IntText(n \div 10)
    ELSE IntText(n \div 10) \o <<".">> \o <<DigitChars[(n % 10) + 1]>>

Values == {5 * k : k \in 0..MaxStep}

\* what the balance prop can be: a number's text, or the empty string while
\* no balance has been read
BalanceInputs == {NumberText(n) : n \in Values} \cup {<<>>}

\* what <input type="number"> can hand to handleChange: a number's text, a
\* negative number's text, or the empty string
AmountInputs == {NumberText(n) : n \in Values} \cup {<<"-">> \o NumberText(5), <<>>}

\* messages the provider can attach to a failed call ("" : none attached)
ApproveMessages == {"approve: user rejected"}
SupplyMessages == {"supply: execution reverted", ""}
TxHash == "0xhash"

MsgPositive == "Amount must be a positive number."
MsgExceeds == "Amount exceeds wallet balance."
MsgZero == "Amount must be greater than zero."
MsgUnknown == "An unknown error occurred."

Truthy(m) == m \notin {Null, Undefined, ""}

\* ------------------------------------------------------------------ state
VARIABLES
    isOpen, balance,            \* props
    walletAddress,              \* useAccountAddress: TRUE when connected
    amount, isValid, errorMessage, data, isError, showSuccessIcon, isApproved,
    approval,                   \* useApproval: [status, error, data]
    supply,                     \* useSupply: [status, error, data]
    clipboard,                  \* navigator.clipboard
    lastCall,                   \* the external call issued by the last step
    sessApprove,                \* approval in the current open session
    sessSupply,                 \* submission in the current open session
    inFlight,                   \* calls this instance issued, not yet settled
    lastClick,                  \* the button the last step clicked, if any
    approveArg                  \* the amount of the last approve call

\* DepositTable
VARIABLES
    chainId,                    \* useChainId
    isModalOpen, isWithdrawModalOpen,
    selectedAsset, selectedContract, selectedAssetContract,
    balances,                   \* the record held by useState({})
    pendingBalances,            \* updaters queued by setBalances, not yet applied
    lastReported                \* per token, the last balance a reader reported

\* YourDeposits
VARIABLES
    batchDeposits, batchMints, checkRemainingMintingPower,  \* useReadContract data
    isMintModalOpen, mintSelectedAsset,
    consoleLog                  \* the last line written to the console

\* Lending page
VARIABLES
    isYourSuppliesVisible, isAssetsToSupplyVisible, isYourBorrowsVissible,
    isAssetsToBorrowVisible,
    allBalancesZero, refreshKey, suppliesTotalBalance, borrowsTotalBalance

modalVars == <<isOpen, balance, walletAddress, amount, isValid, errorMessage,
               data, isError, showSuccessIcon, isApproved, approval, supply,
               clipboard, lastCall, sessApprove, sessSupply, inFlight,
               lastClick, approveArg>>

tableVars == <<isModalOpen, isWithdrawModalOpen, selectedAsset,
               selectedContract, selectedAssetContract>>

balanceVars == <<balances, pendingBalances, lastReported>>

depositVars == <<batchDeposits, batchMints, checkRemainingMintingPower,
                 isMintModalOpen, mintSelectedAsset, consoleLog>>

\* the Lending page's state other than refreshKey
pageFlags == <<isYourSuppliesVisible, isAssetsToSupplyVisible,
               isYourBorrowsVissible, isAssetsToBorrowVisible, allBalancesZero,
               suppliesTotalBalance, borrowsTotalBalance>>

pageVars == <<pageFlags, refreshKey>>

\* everything outside SupplyTransactionModal
notModal == <<chainId, tableVars, balanceVars, depositVars, pageVars>>

vars == <<modalVars, chainId, tableVars, balanceVars, depositVars, pageVars>>

\* ------------------------------------------------------------ the hooks
\* useApproval and useSupply each wrap one write call: idle until the first
\* call, pending from a call until it settles, then success or error; a
\* new call while one is pending replaces it
HookIdle == [status |-> "idle", error |-> Null, data |-> Null]
HookPending == [status |-> "pending", error |-> Null, data |-> Null]
HookSettled(ok, msg) ==
    IF ok THEN [status |-> "success", error |-> Null, data |-> TxHash]
          ELSE [status |-> "error", error |-> msg, data |-> Null]

\* ------------------------------------------------- what the hooks return
approveError == approval.status = "error"
approveSuccess == approval.status = "success"
approvePending == approval.status = "pending"

supplyError == supply.status = "error"
supplyData == supply.data
error == supply.error

\* error?.message
ErrorMessageOf(e) == IF e = Null THEN Undefined ELSE e

\* ------------------------------------------------------------ rendering
\* {!data && !isError && ( ...amount form... )}
FormView == data = Null /\ ~isError

\* {data && ( ...All done!... )}
SuccessView == data # Null

\* {approveError && ( ...Error... )}
ErrorView == approveError

\* <p className="text-sm">{error?.message}</p>
ErrorViewMessage == ErrorMessageOf(error)

\* handleCopyError: writeText(error.message)
CopyText == ErrorMessageOf(error)

\* the Approve button's disabled test without the pending flag
ApproveDisabled_NoPending == ~isValid \/ isApproved

\* Approve: disabled={!isValid || approvePending || isApproved}
ApproveDisabled == ~isValid \/ approvePending \/ isApproved

\* the Supply button's disabled test without the approval flag
SupplyDisabled_ValidOnly == ~isValid

\* Supply: disabled={!isApproved || !isValid}
SupplyDisabled == ~isApproved \/ ~isValid

\* a control whose onClick is handleClose is on screen (Cancel / Ok, close / Close)
CloseControl == FormView \/ SuccessView \/ ErrorView

\* ----------------------------------------------------------- validation
\* validateAmount without its branch for zero
validateAmount_NoZeroBranch(value, bal) ==
    LET numValue == parseFloat(value) IN
    IF isNaN(numValue) \/ Lt(numValue, Zero)
      THEN [isValid |-> FALSE, errorMessage |-> MsgPositive]
    ELSE IF Gt(numValue, parseFloat(bal))
      THEN [isValid |-> FALSE, errorMessage |-> MsgExceeds]
    ELSE [isValid |-> TRUE, errorMessage |-> ""]

validateAmount(value, bal) ==
    LET numValue == parseFloat(value) IN
    IF isNaN(numValue) \/ Lt(numValue, Zero)
      THEN [isValid |-> FALSE, errorMessage |-> MsgPositive]
    ELSE IF Gt(numValue, parseFloat(bal))
      THEN [isValid |-> FALSE, errorMessage |-> MsgExceeds]
    ELSE IF StrictEq(numValue, Zero)
      THEN [isValid |-> FALSE, errorMessage |-> MsgZero]
    ELSE [isValid |-> TRUE, errorMessage |-> ""]

\* setAmount(value) followed by the effect on [amount], which runs only
\* when the value differs from the one of the previous render
SetAmount(value) ==
    /\ amount' = value
    /\ IF value # amount
         THEN /\ isValid' = validateAmount(value, balance).isValid
              /\ errorMessage' = validateAmount(value, balance).errorMessage
         ELSE UNCHANGED <<isValid, errorMessage>>

\* ------------------------------------------------ YourDeposits: the reads
\* what useReadContract hands back as data: nothing (loading, error, no
\* wallet) or a value.  Batch amounts are held in units of 10^-7 token
\* (10^11 wei), the minting power in tenths of a token.
NoBatch == [has |-> FALSE, v |-> <<>>]
Batch(v) == [has |-> TRUE, v |-> v]
NoPower == [has |-> FALSE, v |-> 0]
Power(v) == [has |-> TRUE, v |-> v]

\* five zero balances, and five balances with x at position p
ZeroBatch == [k \in 1..5 |-> 0]
OneAt(p, x) == [k \in 1..5 |-> IF k = p THEN x ELSE 0]

\* the deposit reads considered: no data, all zero, the first or the last
\* asset holding dust below the sixth decimal (0.0000001) or 1.5 tokens
BatchReads ==
    {NoBatch, Batch(ZeroBatch)}
        \cup {Batch(OneAt(p, x)) : p \in {1, 5}, x \in {1, 15000000}}

\* the mint reads considered: no data, all zero, 1.5 minted on the first asset
MintReads == {NoBatch, Batch(ZeroBatch), Batch(OneAt(1, 15000000))}

PowerReads == {NoPower, Power(0), Power(15)}

\* selectedAsset of YourDeposits when null
NoAsset ==
    [assetName |-> Null, houseOfReserveContract |-> Null,
     assetContract |-> Null, houseOfCoinContract |-> Null,
     assetsAccountantContract |-> Null]

\* ------------------------------------------------------------------- Init
NoneInFlight == [approve |-> 0, supply |-> 0]

\* DepositTable as mounted: no modal, nothing selected
TableStart ==
    /\ isModalOpen = FALSE
    /\ isWithdrawModalOpen = FALSE
    /\ selectedAsset = Null
    /\ selectedContract = Null
    /\ selectedAssetContract = ""

\* DepositTable's balances record as mounted: useState({})
BalancesStart ==
    /\ balances = <<>>
    /\ pendingBalances = <<>>
    /\ lastReported = <<>>

\* YourDeposits as mounted: no read has returned, no modal
DepositsStart ==
    /\ batchDeposits = NoBatch
    /\ batchMints = NoBatch
    /\ checkRemainingMintingPower = NoPower
    /\ isMintModalOpen = FALSE
    /\ mintSelectedAsset = NoAsset
    /\ consoleLog = <<>>

\* the Lending page as mounted
PageStart ==
    /\ isYourSuppliesVisible = TRUE
    /\ isAssetsToSupplyVisible = TRUE
    /\ isYourBorrowsVissible = TRUE
    /\ isAssetsToBorrowVisible = TRUE
    /\ allBalancesZero = TRUE
    /\ refreshKey = 0
    /\ suppliesTotalBalance = 0
    /\ borrowsTotalBalance = 0

\* the state once the component is mounted closed and its mount effects
\* have run: validateAmount("") has set the message
Init ==
    /\ isOpen = FALSE
    /\ balance \in BalanceInputs
    /\ walletAddress \in BOOLEAN
    /\ amount = <<>>
    /\ isValid = FALSE
    /\ errorMessage = validateAmount(<<>>, balance).errorMessage
    /\ data = Null
    /\ isError = FALSE
    /\ showSuccessIcon = FALSE
    /\ isApproved = FALSE
    /\ approval = HookIdle
    /\ supply = HookIdle
    /\ clipboard = Null
    /\ lastCall = "none"
    /\ sessApprove = "none"
    /\ sessSupply = "none"
    /\ inFlight = NoneInFlight
    /\ lastClick = "none"
    /\ approveArg = <<>>
    /\ chainId = 56
    /\ TableStart /\ BalancesStart /\ DepositsStart /\ PageStart

\* ---------------------------------------------------------- environment
\* the parent renders the modal with isOpen = true
Open ==
    /\ ~isOpen
    /\ isOpen' = TRUE
    /\ lastCall' = "none"
    /\ UNCHANGED <<balance, walletAddress, amount, isValid, errorMessage, data,
                   isError, showSuccessIcon, isApproved, approval, supply,
                   clipboard, sessApprove, sessSupply>>
    /\ lastClick' = "none"
    /\ UNCHANGED <<inFlight, approveArg, notModal>>

\* the parent re-renders the modal with another balance; no effect depends
\* on balance, so nothing else changes
SetBalance(b) ==
    /\ b # balance
    /\ balance' = b
    /\ lastCall' = "none"
    /\ UNCHANGED <<isOpen, walletAddress, amount, isValid, errorMessage, data,
                   isError, showSuccessIcon, isApproved, approval, supply,
                   clipboard, sessApprove, sessSupply>>
    /\ lastClick' = "none"
    /\ UNCHANGED <<inFlight, approveArg, notModal>>

\* the wallet connects or disconnects
SetWallet ==
    /\ walletAddress' = ~walletAddress
    /\ lastCall' = "none"
    /\ UNCHANGED <<isOpen, balance, amount, isValid, errorMessage, data,
                   isError, showSuccessIcon, isApproved, approval, supply,
                   clipboard, sessApprove, sessSupply>>
    /\ lastClick' = "none"
    /\ UNCHANGED <<inFlight, approveArg, notModal>>

\* the refresh with a reset of allBalancesZero added
Remount_ResetsBalancesFlag ==
    /\ isOpen' = FALSE
    /\ amount' = <<>>
    /\ isValid' = FALSE
    /\ errorMessage' = validateAmount(<<>>, balance).errorMessage
    /\ data' = Null
    /\ isError' = FALSE
    /\ showSuccessIcon' = FALSE
    /\ isApproved' = FALSE
    /\ approval' = HookIdle
    /\ supply' = HookIdle
    /\ lastCall' = "none"
    /\ sessApprove' = "none"
    /\ sessSupply' = "none"
    /\ inFlight' = NoneInFlight
    /\ UNCHANGED <<balance, walletAddress, clipboard>>
    /\ refreshKey < MaxRefresh
    /\ refreshKey' = refreshKey + 1
    /\ lastClick' = "none"
    /\ approveArg' = <<>>
    /\ allBalancesZero' = TRUE
    /\ UNCHANGED <<isYourSuppliesVisible, isAssetsToSupplyVisible,
                   isYourBorrowsVissible, isAssetsToBorrowVisible,
                   suppliesTotalBalance, borrowsTotalBalance>>
    /\ UNCHANGED <<chainId, tableVars, balanceVars, depositVars>>

\* "Refresh all data" gives the tables a new key: the table that holds the
\* modal is unmounted and mounted again, so the modal and its hooks start
\* over (closed, mount effects run) and no longer observe calls in flight
Remount ==
    /\ isOpen' = FALSE
    /\ amount' = <<>>
    /\ isValid' = FALSE
    /\ errorMessage' = validateAmount(<<>>, balance).errorMessage
    /\ data' = Null
    /\ isError' = FALSE
    /\ showSuccessIcon' = FALSE
    /\ isApproved' = FALSE
    /\ approval' = HookIdle
    /\ supply' = HookIdle
    /\ lastCall' = "none"
    /\ sessApprove' = "none"
    /\ sessSupply' = "none"
    /\ inFlight' = NoneInFlight
    /\ UNCHANGED <<balance, walletAddress, clipboard>>
    /\ refreshKey < MaxRefresh
    /\ refreshKey' = refreshKey + 1
    /\ lastClick' = "none"
    /\ approveArg' = <<>>
    /\ UNCHANGED <<chainId, tableVars, balanceVars, depositVars, pageFlags>>

\* ---------------------------------------------------------------- handlers
handleChange(value) ==
    /\ isOpen /\ FormView
    /\ SetAmount(value)
    /\ lastCall' = "none"
    /\ UNCHANGED <<isOpen, balance, walletAddress, data, isError,
                   showSuccessIcon, isApproved, approval, supply, clipboard,
                   sessApprove, sessSupply>>
    /\ lastClick' = "none"
    /\ UNCHANGED <<inFlight, approveArg, notModal>>

handleMaxClick ==
    /\ isOpen /\ FormView
    /\ SetAmount(balance)
    /\ lastCall' = "none"
    /\ UNCHANGED <<isOpen, balance, walletAddress, data, isError,
                   showSuccessIcon, isApproved, approval, supply, clipboard,
                   sessApprove, sessSupply>>
    /\ lastClick' = "none"
    /\ UNCHANGED <<inFlight, approveArg, notModal>>

\* the Approve click without the test of walletAddress
handleApproveClick_NoWalletTest ==
    /\ isOpen /\ FormView /\ ~ApproveDisabled
    /\ inFlight.approve < MaxInFlight
    /\ IF TRUE
         THEN /\ approval' = HookPending
              /\ lastCall' = "approve"
              /\ sessApprove' = "called"
              /\ inFlight' = [inFlight EXCEPT !.approve = @ + 1]
              /\ approveArg' = amount
         ELSE /\ lastCall' = "none"
              /\ UNCHANGED <<approval, sessApprove, inFlight, approveArg>>
    /\ UNCHANGED <<isOpen, balance, walletAddress, amount, isValid,
                   errorMessage, data, isError, showSuccessIcon, isApproved,
                   supply, clipboard, sessSupply>>
    /\ lastClick' = "approve"
    /\ UNCHANGED notModal

\* approve(adjustedAmount): the hook goes to pending; the effect on
\* [approveSuccess] may run but sets nothing while approveSuccess is false
handleApproveClick ==
    /\ isOpen /\ FormView /\ ~ApproveDisabled
    /\ inFlight.approve < MaxInFlight
    /\ IF walletAddress
         THEN /\ approval' = HookPending
              /\ lastCall' = "approve"
              /\ sessApprove' = "called"
              /\ inFlight' = [inFlight EXCEPT !.approve = @ + 1]
              /\ approveArg' = amount
         ELSE /\ lastCall' = "none"
              /\ UNCHANGED <<approval, sessApprove, inFlight, approveArg>>
    /\ UNCHANGED <<isOpen, balance, walletAddress, amount, isValid,
                   errorMessage, data, isError, showSuccessIcon, isApproved,
                   supply, clipboard, sessSupply>>
    /\ lastClick' = "approve"
    /\ UNCHANGED notModal

\* handleSupply(asset, amountInWei, walletAddress): the hook goes to
\* pending; the effect on [supplyError, supplyData, error] may run but sets
\* nothing while both are falsy
handleSupplyClick ==
    /\ isOpen /\ FormView /\ ~SupplyDisabled
    /\ inFlight.supply < MaxInFlight
    /\ IF walletAddress /\ isApproved
         THEN /\ supply' = HookPending
              /\ lastCall' = "handleSupply"
              /\ sessSupply' = "called"
              /\ inFlight' = [inFlight EXCEPT !.supply = @ + 1]
         ELSE /\ lastCall' = "none"
              /\ UNCHANGED <<supply, sessSupply, inFlight>>
    /\ UNCHANGED <<isOpen, balance, walletAddress, amount, isValid,
                   errorMessage, data, isError, showSuccessIcon, isApproved,
                   approval, clipboard, sessApprove>>
    /\ lastClick' = "supply"
    /\ UNCHANGED <<approveArg, notModal>>

\* writeText(error.message) and, once it resolves, setShowSuccessIcon(true)
handleCopyError ==
    /\ isOpen /\ ErrorView
    /\ IF Truthy(CopyText)
         THEN /\ clipboard' = CopyText
              /\ showSuccessIcon' = TRUE
         ELSE UNCHANGED <<clipboard, showSuccessIcon>>
    /\ lastCall' = "none"
    /\ UNCHANGED <<isOpen, balance, walletAddress, amount, isValid,
                   errorMessage, data, isError, isApproved, approval, supply,
                   sessApprove, sessSupply>>
    /\ lastClick' = "none"
    /\ UNCHANGED <<inFlight, approveArg, notModal>>

\* setTimeout(() => setShowSuccessIcon(false), 1500)
HideSuccessIcon ==
    /\ showSuccessIcon
    /\ showSuccessIcon' = FALSE
    /\ lastCall' = "none"
    /\ UNCHANGED <<isOpen, balance, walletAddress, amount, isValid,
                   errorMessage, data, isError, isApproved, approval, supply,
                   clipboard, sessApprove, sessSupply>>
    /\ lastClick' = "none"
    /\ UNCHANGED <<inFlight, approveArg, notModal>>

\* the six setters, onClose(), and then the effect on [amount] when the
\* amount was not already empty: validateAmount("")
handleClose ==
    /\ isOpen /\ CloseControl
    /\ amount' = <<>>
    /\ isValid' = FALSE
    /\ errorMessage' = IF amount # <<>>
                          THEN validateAmount(<<>>, balance).errorMessage
                          ELSE ""
    /\ data' = Null
    /\ isError' = FALSE
    /\ isApproved' = FALSE
    /\ isOpen' = FALSE
    /\ lastCall' = "none"
    /\ sessApprove' = "none"
    /\ sessSupply' = "none"
    /\ UNCHANGED <<balance, walletAddress, showSuccessIcon, approval, supply,
                   clipboard>>
    /\ lastClick' = "none"
    /\ UNCHANGED <<inFlight, approveArg, notModal>>

\* ------------------------------------------------------ results arriving
\* the approval settles, with an effect that calls approve again on failure
ApproveSettled_Retry(ok, msg) ==
    /\ approvePending
    /\ approval' = IF ok THEN HookSettled(ok, msg) ELSE HookPending
    /\ isApproved' = IF approveSuccess' THEN TRUE ELSE isApproved
    /\ sessApprove' = IF ok /\ isOpen /\ sessApprove = "called"
                         THEN "observed" ELSE sessApprove
    /\ lastCall' = IF ok THEN "none" ELSE "approve"
    /\ inFlight' = IF ok THEN [inFlight EXCEPT !.approve = @ - 1] ELSE inFlight
    /\ UNCHANGED <<isOpen, balance, walletAddress, amount, isValid,
                   errorMessage, data, isError, showSuccessIcon, supply,
                   clipboard, sessSupply>>
    /\ lastClick' = "none"
    /\ UNCHANGED <<approveArg, notModal>>

\* the approval settles; the effect on [approveSuccess] sets isApproved
\* when it is a success.  The component stays mounted while closed, so the
\* effect runs whether or not the modal is open.
ApproveSettled(ok, msg) ==
    /\ approvePending
    /\ approval' = HookSettled(ok, msg)
    /\ isApproved' = IF approveSuccess' THEN TRUE ELSE isApproved
    /\ sessApprove' = IF ok /\ isOpen /\ sessApprove = "called"
                         THEN "observed" ELSE sessApprove
    /\ lastCall' = "none"
    /\ inFlight' = [inFlight EXCEPT !.approve = @ - 1]
    /\ UNCHANGED <<isOpen, balance, walletAddress, amount, isValid,
                   errorMessage, data, isError, showSuccessIcon, supply,
                   clipboard, sessSupply>>
    /\ lastClick' = "none"
    /\ UNCHANGED <<approveArg, notModal>>

\* the submission settles, with an effect that never calls setData
SupplySettled_NoSetData(ok, msg) ==
    /\ supply.status = "pending"
    /\ supply' = HookSettled(ok, msg)
    /\ IF supplyError'
         THEN /\ isError' = TRUE
              /\ errorMessage' = IF Truthy(ErrorMessageOf(error'))
                                   THEN ErrorMessageOf(error') ELSE MsgUnknown
         ELSE UNCHANGED <<isError, errorMessage>>
    /\ UNCHANGED data
    /\ sessSupply' = IF isOpen /\ sessSupply = "called"
                        THEN (IF ok THEN "ok" ELSE "failed") ELSE sessSupply
    /\ lastCall' = "none"
    /\ inFlight' = [inFlight EXCEPT !.supply = @ - 1]
    /\ UNCHANGED <<isOpen, balance, walletAddress, amount, isValid,
                   showSuccessIcon, isApproved, approval, clipboard,
                   sessApprove>>
    /\ lastClick' = "none"
    /\ UNCHANGED <<approveArg, notModal>>

\* the submission settles; the effect on [supplyError, supplyData, error]
SupplySettled(ok, msg) ==
    /\ supply.status = "pending"
    /\ supply' = HookSettled(ok, msg)
    /\ IF supplyError'
         THEN /\ isError' = TRUE
              /\ errorMessage' = IF Truthy(ErrorMessageOf(error'))
                                   THEN ErrorMessageOf(error') ELSE MsgUnknown
         ELSE UNCHANGED <<isError, errorMessage>>
    /\ IF Truthy(supplyData')
         THEN data' = supplyData'
         ELSE UNCHANGED data
    /\ sessSupply' = IF isOpen /\ sessSupply = "called"
                        THEN (IF ok THEN "ok" ELSE "failed") ELSE sessSupply
    /\ lastCall' = "none"
    /\ inFlight' = [inFlight EXCEPT !.supply = @ - 1]
    /\ UNCHANGED <<isOpen, balance, walletAddress, amount, isValid,
                   showSuccessIcon, isApproved, approval, clipboard,
                   sessApprove>>
    /\ lastClick' = "none"
    /\ UNCHANGED <<approveArg, notModal>>

\* a call that a later call of the same hook replaced settles: the hook no
\* longer observes it, so the component sees nothing
SupersededSettled(h) ==
    /\ inFlight[h] > (IF (IF h = "approve" THEN approval ELSE supply).status = "pending"
                        THEN 1 ELSE 0)
    /\ inFlight' = [inFlight EXCEPT ![h] = @ - 1]
    /\ lastCall' = "none"
    /\ UNCHANGED <<isOpen, balance, walletAddress, amount, isValid,
                   errorMessage, data, isError, showSuccessIcon, isApproved,
                   approval, supply, clipboard, sessApprove, sessSupply>>
    /\ lastClick' = "none"
    /\ UNCHANGED <<approveArg, notModal>>

Next ==
    \/ Open
    \/ \E b \in BalanceInputs : SetBalance(b)
    \/ SetWallet
    \/ Remount
    \/ \E v \in AmountInputs : handleChange(v)
    \/ handleMaxClick
    \/ handleApproveClick
    \/ handleSupplyClick
    \/ handleCopyError
    \/ HideSuccessIcon
    \/ handleClose
    \/ \E ok \in BOOLEAN, msg \in ApproveMessages : ApproveSettled(ok, msg)
    \/ \E ok \in BOOLEAN, msg \in SupplyMessages : SupplySettled(ok, msg)
    \/ \E h \in {"approve", "supply"} : SupersededSettled(h)

Spec == Init /\ [][Next]_vars

TypeOK ==
    /\ isOpen \in BOOLEAN /\ walletAddress \in BOOLEAN
    /\ balance \in BalanceInputs
    /\ amount \in AmountInputs \cup BalanceInputs
    /\ isValid \in BOOLEAN /\ isError \in BOOLEAN /\ isApproved \in BOOLEAN
    /\ showSuccessIcon \in BOOLEAN
    /\ data \in {Null, TxHash}
    /\ lastCall \in {"none", "approve", "handleSupply"}

\* ============================================================ DepositTable
\* one entry of the registry
Asset(name, maxLTV, houseOfReserveContract, assetContract) ==
    [name |-> name, maxLTV |-> maxLTV, liquidationThreshold |-> "85%",
     houseOfReserveContract |-> houseOfReserveContract,
     assetContract |-> assetContract]

\* const assets: { [key: number]: {...}[] }
assets ==
    (56 :> << Asset("WETH", "85%", "0xd411BE9A105Ea7701FabBe58C2834b7033EBC203",
                    "0x2170ed0880ac9a755fd29b2688956bd959f933f8"),
              Asset("WBNB", "70%", "0x070ccE6887E70b75015F948b12601D1E759D2024",
                    "0xbb4cdb9cbd36b01bd1cbaebf2de08d9173bc095c") >>)
    @@
    (137 :> << Asset("WETH", "85%", "0xd411BE9A105Ea7701FabBe58C2834b7033EBC203",
                     "0x7ceb23fd6bc0add59e62ac25578270cff1b9f619"),
               Asset("wstETH", "70%", "0x28C7DF27e5bC7Cb004c8D4bb2C2D91f246D0A2C9",
                     "0x03b54a6e9a984069379fae1a4fc4dbae93b3bccd"),
               Asset("MATICX", "60%", "0x102dda5f4621a08dafD327f29f9c815f851846dC",
                     "0xfa68fb4628dff1028cfec22b4162fccd0d45efb6"),
               Asset("WMATIC", "70%", "0xdB9Dd25660240415d95144C6CE4f21f00Edf8168",
                     "0x0d500B1d8E8eF31E21C99d1Db9A6444d3ADf1270"),
               Asset("WBTC", "70%", "0x983A0eC44bf1BB11592a8bD5F91f05adE4F44D81",
                     "0x1bfd67037b42cf73acf2047067bd4f2c47d9bfd6") >>)
    @@
    (8453 :> << Asset("WETH", "80%", "0xfF69E183A863151B4152055974aa648b3165014D",
                      "0x4200000000000000000000000000000000000006"),
                Asset("cbETH", "80%", "0x5c4a154690AE52844F151bcF3aA44885db3c8A58",
                      "0x2Ae3F1Ec7F1F5012CFEab0185bfc7aa3cf0DEc22") >>)

\* the network identifiers useChainId returns here: the registered ones and
\* two that are not (Ethereum mainnet, Arbitrum One)
ChainIds == DOMAIN assets \cup {1, 42161}

\* registry[id] || [] : a missing key reads undefined, which is falsy; an
\* array is truthy
OrEmpty(registry, id) ==
    IF id \in DOMAIN registry THEN registry[id] ELSE <<>>

\* the lookup with the [] fallback left out: an unregistered identifier
\* reads the list of the first registered one
chainAssets_NoFallback ==
    IF chainId \in DOMAIN assets THEN assets[chainId] ELSE assets[56]

\* const chainAssets = assets[chainId] || [];
chainAssets ==
    OrEmpty(assets, chainId)

\* the row positions of the longest registered list
RowIndices == UNION {DOMAIN assets[c] : c \in DOMAIN assets}

\* {chainAssets.map(asset => ( <tr key={asset.name}> ... ))}
TableRows == [i \in 1..Len(chainAssets) |-> chainAssets[i].name]

\* {isModalOpen && selectedAsset && selectedContract && ( <DepositModal ... )}
DepositModalRendered ==
    isModalOpen /\ Truthy(selectedAsset) /\ Truthy(selectedContract)

\* {isWithdrawModalOpen && selectedAsset && selectedContract && ( <WithdrawModal ... )}
WithdrawModalRendered ==
    isWithdrawModalOpen /\ Truthy(selectedAsset) /\ Truthy(selectedContract)

\* the props handed to whichever modal is rendered
ModalProps ==
    [assetName |-> selectedAsset, houseOfReserveContract |-> selectedContract,
     assetContract |-> selectedAssetContract]

\* the wallet switches to another network: useChainId returns the new
\* identifier and the components re-render with their state kept
ChainChanged(c) ==
    /\ c # chainId
    /\ chainId' = c
    /\ UNCHANGED <<modalVars, pageVars, tableVars, balanceVars, depositVars>>

\* handleOpenModal with the Deposit button of another row's contracts
handleOpenModal_FirstRow(i) ==
    /\ i \in 1..Len(chainAssets)
    /\ selectedAsset' = chainAssets[i].name
    /\ selectedContract' = chainAssets[1].houseOfReserveContract
    /\ selectedAssetContract' = chainAssets[1].assetContract
    /\ isModalOpen' = TRUE
    /\ UNCHANGED <<isWithdrawModalOpen, chainId, modalVars, pageVars, balanceVars,
                   depositVars>>

\* the Deposit button of row i:
\* handleOpenModal(asset.name, asset.houseOfReserveContract, asset.assetContract)
handleOpenModal(i) ==
    /\ i \in 1..Len(chainAssets)
    /\ selectedAsset' = chainAssets[i].name
    /\ selectedContract' = chainAssets[i].houseOfReserveContract
    /\ selectedAssetContract' = chainAssets[i].assetContract
    /\ isModalOpen' = TRUE
    /\ UNCHANGED <<isWithdrawModalOpen, chainId, modalVars, pageVars, balanceVars,
                   depositVars>>

\* onClose of the rendered DepositModal
handleCloseModal ==
    /\ DepositModalRendered
    /\ selectedAsset' = Null
    /\ selectedContract' = Null
    /\ selectedAssetContract' = ""
    /\ isModalOpen' = FALSE
    /\ UNCHANGED <<isWithdrawModalOpen, chainId, modalVars, pageVars, balanceVars,
                   depositVars>>

\* the Withdraw button of row i
handleOpenWithdrawModal(i) ==
    /\ i \in 1..Len(chainAssets)
    /\ selectedAsset' = chainAssets[i].name
    /\ selectedContract' = chainAssets[i].houseOfReserveContract
    /\ selectedAssetContract' = chainAssets[i].assetContract
    /\ isWithdrawModalOpen' = TRUE
    /\ UNCHANGED <<isModalOpen, chainId, modalVars, pageVars, balanceVars, depositVars>>

\* onClose of the rendered WithdrawModal
handleCloseWithdrawModal ==
    /\ WithdrawModalRendered
    /\ selectedAsset' = Null
    /\ selectedContract' = Null
    /\ selectedAssetContract' = ""
    /\ isWithdrawModalOpen' = FALSE
    /\ UNCHANGED <<isModalOpen, chainId, modalVars, pageVars, balanceVars, depositVars>>

\* the modal at rest, as Init leaves it
ModalStart ==
    /\ isOpen = FALSE /\ balance = <<>> /\ walletAddress = FALSE
    /\ amount = <<>> /\ isValid = FALSE /\ errorMessage = MsgPositive
    /\ data = Null /\ isError = FALSE /\ showSuccessIcon = FALSE
    /\ isApproved = FALSE /\ approval = HookIdle /\ supply = HookIdle
    /\ clipboard = Null /\ lastCall = "none"
    /\ sessApprove = "none" /\ sessSupply = "none"
    /\ inFlight = NoneInFlight
    /\ lastClick = "none" /\ approveArg = <<>>

InitTable ==
    /\ chainId \in ChainIds
    /\ TableStart /\ BalancesStart /\ DepositsStart /\ ModalStart /\ PageStart

NextTable ==
    \/ \E c \in ChainIds : ChainChanged(c)
    \/ \E i \in RowIndices : handleOpenModal(i)
    \/ handleCloseModal
    \/ \E i \in RowIndices : handleOpenWithdrawModal(i)
    \/ handleCloseWithdrawModal

SpecTable == InitTable /\ [][NextTable]_vars

\* ============================================ DepositTable: the balances
\* the token addresses the BalanceOf readers of the rendered rows report for
ReaderTokens == {chainAssets[i].assetContract : i \in DOMAIN chainAssets}

\* every token address of the registry
AllTokens ==
    UNION {{assets[c][i].assetContract : i \in DOMAIN assets[c]} : c \in DOMAIN assets}

\* the balance texts a reader reports
BalanceTexts == {"0", "1.5"}

\* { ...record, [key]: value }
Put(record, key, value) ==
    [k \in DOMAIN record \cup {key} |-> IF k = key THEN value ELSE record[k]]

\* an updater that drops the previous record: ({ [tokenAddress]: balance })
ApplyUpdate_Replace(prevBalances, u) ==
    Put(<<>>, u.tokenAddress, u.balance)

\* prevBalances => ({ ...prevBalances, [tokenAddress]: balance })
ApplyUpdate(prevBalances, u) ==
    Put(prevBalances, u.tokenAddress, u.balance)

\* React runs the queued updaters in order, each on the result of the one
\* before it
RECURSIVE ApplyAll(_, _)
ApplyAll(prevBalances, queue) ==
    IF queue = <<>> THEN prevBalances
    ELSE ApplyAll(ApplyUpdate(prevBalances, Head(queue)), Tail(queue))

\* a reader calls onBalanceChange: setBalances queues the updater
handleBalanceChange(tokenAddress, bal) ==
    /\ tokenAddress \in ReaderTokens
    /\ Len(pendingBalances) < MaxPending
    /\ pendingBalances' =
         Append(pendingBalances, [tokenAddress |-> tokenAddress, balance |-> bal])
    /\ lastReported' = Put(lastReported, tokenAddress, bal)
    /\ UNCHANGED <<balances, chainId, modalVars, pageVars, tableVars, depositVars>>

\* the next render applies the queued updaters
RenderBalances ==
    /\ pendingBalances # <<>>
    /\ balances' = ApplyAll(balances, pendingBalances)
    /\ pendingBalances' = <<>>
    /\ UNCHANGED <<lastReported, chainId, modalVars, pageVars, tableVars, depositVars>>

InitBalances ==
    /\ chainId \in DOMAIN assets
    /\ TableStart /\ BalancesStart /\ DepositsStart /\ ModalStart /\ PageStart

NextBalances ==
    \/ \E t \in AllTokens, b \in BalanceTexts : handleBalanceChange(t, b)
    \/ RenderBalances

SpecBalances == InitBalances /\ [][NextBalances]_vars

\* ============================================================ YourDeposits
\* ------------------------------------------- YourDeposits: the formatting
\* the deposit amounts formatted from the mint read
formattedBalances_FromMints ==
    IF batchMints.has THEN batchMints.v ELSE ZeroBatch

\* Number(x) / 10 ** 18 of every entry (kept in units of 10^-7), or five zeros
formattedBalances ==
    IF batchDeposits.has THEN batchDeposits.v ELSE ZeroBatch

formattedMints ==
    IF batchMints.has THEN batchMints.v ELSE ZeroBatch

\* checkRemainingMintingPower ? (Number(...) / 10 ** 18).toString() : "0"
\* (the bigint 0n is falsy)
formattedMintingPower ==
    IF checkRemainingMintingPower.has /\ checkRemainingMintingPower.v # 0
      THEN NumberText(checkRemainingMintingPower.v)
      ELSE <<"0">>

\* parseFloat(x.toFixed(6)): x rounded to six decimals, in units of 10^-6
ToFixed6(x) == (x + 5) \div 10

\* formattedBalances.every(balance => balance === 0)
allDepositsZero ==
    \A k \in DOMAIN formattedBalances : formattedBalances[k] = 0

\* the literal part of one entry of the deposits table; k is the position
\* of the asset in the two batch reads
DepositAsset(symbol, k, houseofReserveContract, assetContract, houseOfCoinContract, assetsAccountantContract, usageAsCollateralEnabled) ==
    [symbol |-> symbol, k |-> k,
     houseofReserveContract |-> houseofReserveContract,
     assetContract |-> assetContract,
     houseOfCoinContract |-> houseOfCoinContract,
     assetsAccountantContract |-> assetsAccountantContract,
     usageAsCollateralEnabled |-> usageAsCollateralEnabled]

depositAssets ==
    (56 :> << DepositAsset("WETH", 1, "0xd411BE9A105Ea7701FabBe58C2834b7033EBC203",
                                     "0x2170ed0880ac9a755fd29b2688956bd959f933f8",
                                     "0x518Ad4acAdb3FdE4Ab990a79A0583FA8c4E35FcA",
                                     "0xB90996A70C957a1496e349434CF0E030A9f693A4", TRUE),
              DepositAsset("WBNB", 2, "0x070ccE6887E70b75015F948b12601D1E759D2024",
                                     "0xbb4cdb9cbd36b01bd1cbaebf2de08d9173bc095c",
                                     "0x518Ad4acAdb3FdE4Ab990a79A0583FA8c4E35FcA",
                                     "0xB90996A70C957a1496e349434CF0E030A9f693A4", FALSE) >>)
    @@
    (137 :> << DepositAsset("WETH", 1, "0xd411BE9A105Ea7701FabBe58C2834b7033EBC203",
                                      "0x7ceb23fd6bc0add59e62ac25578270cff1b9f619",
                                      "0x7ed1acd46de3a4e63f2d3b0f4fb5532e113a520b",
                                      "0xB90996A70C957a1496e349434CF0E030A9f693A4", TRUE),
               DepositAsset("wstETH", 2, "0x28C7DF27e5bC7Cb004c8D4bb2C2D91f246D0A2C9",
                                      "0x03b54a6e9a984069379fae1a4fc4dbae93b3bccd",
                                      "0x7ed1acd46de3a4e63f2d3b0f4fb5532e113a520b",
                                      "0xB90996A70C957a1496e349434CF0E030A9f693A4", FALSE),
               DepositAsset("MATICX", 3, "0x102dda5f4621a08dafD327f29f9c815f851846dC",
                                      "0xfa68fb4628dff1028cfec22b4162fccd0d45efb6",
                                      "0x7ed1acd46de3a4e63f2d3b0f4fb5532e113a520b",
                                      "0xB90996A70C957a1496e349434CF0E030A9f693A4", TRUE),
               DepositAsset("WMATIC", 4, "0xdB9Dd25660240415d95144C6CE4f21f00Edf8168",
                                      "0x0d500B1d8E8eF31E21C99d1Db9A6444d3ADf1270",
                                      "0x7ed1acd46de3a4e63f2d3b0f4fb5532e113a520b",
                                      "0xB90996A70C957a1496e349434CF0E030A9f693A4", FALSE),
               DepositAsset("WBTC", 5, "0x983A0eC44bf1BB11592a8bD5F91f05adE4F44D81",
                                      "0x1bfd67037b42cf73acf2047067bd4f2c47d9bfd6",
                                      "0x7ed1acd46de3a4e63f2d3b0f4fb5532e113a520b",
                                      "0xB90996A70C957a1496e349434CF0E030A9f693A4", TRUE) >>)
    @@
    (8453 :> << DepositAsset("WETH", 1, "0xfF69E183A863151B4152055974aa648b3165014D",
                                       "0x4200000000000000000000000000000000000006",
                                       "0x02c531Cd9791dD3A31428B2987A82361D72F9b13",
                                       "0xB93EcD005B6053c6F8428645aAA879e7028408C7", TRUE),
                DepositAsset("cbETH", 2, "0x070ccE6887E70b75015F948b12601D1E759D2024",
                                       "0x2Ae3F1Ec7F1F5012CFEab0185bfc7aa3cf0DEc22",
                                       "0x02c531Cd9791dD3A31428B2987A82361D72F9b13",
                                       "0xB93EcD005B6053c6F8428645aAA879e7028408C7", FALSE) >>)

\* one entry of the deposits table as a render computes it
Deposit(a) ==
    [symbol |-> a.symbol,
     amount |-> ToFixed6(formattedBalances[a.k]),
     minted |-> ToFixed6(formattedMints[a.k]),
     mintingPower |-> parseFloat(formattedMintingPower),
     houseofReserveContract |-> a.houseofReserveContract,
     assetContract |-> a.assetContract,
     houseOfCoinContract |-> a.houseOfCoinContract,
     assetsAccountantContract |-> a.assetsAccountantContract,
     usageAsCollateralEnabled |-> a.usageAsCollateralEnabled]

\* const deposits: { [key: number]: {...}[] }
deposits ==
    [c \in DOMAIN depositAssets |->
        [i \in DOMAIN depositAssets[c] |-> Deposit(depositAssets[c][i])]]

\* const chainDeposits = deposits[chainId] || [];
chainDeposits ==
    OrEmpty(deposits, chainId)

\* chainDeposits.length > 0 && !allDepositsZero
DepositsTableShown ==
    Len(chainDeposits) > 0 /\ ~allDepositsZero

\* what the component renders: the table, or
\* "Nothing deposited yet - No open positions found"
YourDepositsView ==
    IF DepositsTableShown THEN "table" ELSE "placeholder"

\* {isMintModalOpen && selectedAsset && ( <MintModal ... )}, inside the table branch
MintModalRendered ==
    DepositsTableShown /\ isMintModalOpen /\ mintSelectedAsset # NoAsset

\* a batch read returns or loses its data
DepositsRead(r) ==
    /\ r # batchDeposits
    /\ batchDeposits' = r
    /\ UNCHANGED <<batchMints, checkRemainingMintingPower, isMintModalOpen,
                   mintSelectedAsset, consoleLog>>
    /\ UNCHANGED <<chainId, modalVars, pageVars, tableVars, balanceVars>>

MintsRead(r) ==
    /\ r # batchMints
    /\ batchMints' = r
    /\ UNCHANGED <<batchDeposits, checkRemainingMintingPower, isMintModalOpen,
                   mintSelectedAsset, consoleLog>>
    /\ UNCHANGED <<chainId, modalVars, pageVars, tableVars, balanceVars>>

MintingPowerRead(r) ==
    /\ r # checkRemainingMintingPower
    /\ checkRemainingMintingPower' = r
    /\ UNCHANGED <<batchDeposits, batchMints, isMintModalOpen,
                   mintSelectedAsset, consoleLog>>
    /\ UNCHANGED <<chainId, modalVars, pageVars, tableVars, balanceVars>>

\* the Mint $XOC button of row i
openMintModal(i) ==
    /\ DepositsTableShown
    /\ i \in 1..Len(chainDeposits)
    /\ mintSelectedAsset' =
         [assetName |-> chainDeposits[i].symbol,
          houseOfReserveContract |-> chainDeposits[i].houseofReserveContract,
          assetContract |-> chainDeposits[i].assetContract,
          houseOfCoinContract |-> chainDeposits[i].houseOfCoinContract,
          assetsAccountantContract |-> chainDeposits[i].assetsAccountantContract]
    /\ isMintModalOpen' = TRUE
    /\ UNCHANGED <<batchDeposits, batchMints, checkRemainingMintingPower,
                   consoleLog>>
    /\ UNCHANGED <<chainId, modalVars, pageVars, tableVars, balanceVars>>

\* onClose of the rendered MintModal
closeMintModal ==
    /\ MintModalRendered
    /\ isMintModalOpen' = FALSE
    /\ mintSelectedAsset' = NoAsset
    /\ UNCHANGED <<batchDeposits, batchMints, checkRemainingMintingPower,
                   consoleLog>>
    /\ UNCHANGED <<chainId, modalVars, pageVars, tableVars, balanceVars>>

\* the Repay click with the mint modal's two setters added
handleOpenRepayModal_OpensMint(i) ==
    /\ DepositsTableShown
    /\ i \in 1..Len(chainDeposits)
    /\ consoleLog' = <<"Opening repay modal for", chainDeposits[i].symbol>>
    /\ isMintModalOpen' = TRUE
    /\ mintSelectedAsset' =
         [assetName |-> chainDeposits[i].symbol,
          houseOfReserveContract |-> chainDeposits[i].houseofReserveContract,
          assetContract |-> chainDeposits[i].assetContract,
          houseOfCoinContract |-> chainDeposits[i].houseOfCoinContract,
          assetsAccountantContract |-> chainDeposits[i].assetsAccountantContract]
    /\ UNCHANGED <<batchDeposits, batchMints, checkRemainingMintingPower>>
    /\ UNCHANGED <<chainId, modalVars, pageVars, tableVars, balanceVars>>

\* the Repay $XOC button of row i: console.log(`Opening repay modal for ${assetName}`)
handleOpenRepayModal(i) ==
    /\ DepositsTableShown
    /\ i \in 1..Len(chainDeposits)
    /\ consoleLog' = <<"Opening repay modal for", chainDeposits[i].symbol>>
    /\ UNCHANGED <<batchDeposits, batchMints, checkRemainingMintingPower,
                   isMintModalOpen, mintSelectedAsset>>
    /\ UNCHANGED <<chainId, modalVars, pageVars, tableVars, balanceVars>>

InitDeposits ==
    /\ chainId \in ChainIds
    /\ TableStart /\ BalancesStart /\ DepositsStart /\ ModalStart /\ PageStart

NextDeposits ==
    \/ \E c \in ChainIds : ChainChanged(c)
    \/ \E r \in BatchReads : DepositsRead(r)
    \/ \E r \in MintReads : MintsRead(r)
    \/ \E r \in PowerReads : MintingPowerRead(r)
    \/ \E i \in RowIndices : openMintModal(i)
    \/ closeMintModal
    \/ \E i \in RowIndices : handleOpenRepayModal(i)

SpecDeposits == InitDeposits /\ [][NextDeposits]_vars

\* ============================================================ Lending page
\* the tables the page renders; each is given key={refreshKey}
MountedTables ==
    {t \in {"YourSupplies", "AssetsToSupply", "YourBorrows", "AssetsToBorrow"} :
        \/ t = "YourSupplies" /\ isYourSuppliesVisible
        \/ t = "AssetsToSupply" /\ isAssetsToSupplyVisible
        \/ t = "YourBorrows" /\ isYourBorrowsVissible
        \/ t = "AssetsToBorrow" /\ isAssetsToBorrowVisible /\ ~allBalancesZero}

TableKey == [t \in MountedTables |-> refreshKey]

\* the Assets to borrow test without the balances flag
AssetsToBorrowRendered_FlagOnly == isAssetsToBorrowVisible

\* {isAssetsToBorrowVisible && !allBalancesZero && <AssetsToBorrow key={refreshKey} />}
AssetsToBorrowRendered == isAssetsToBorrowVisible /\ ~allBalancesZero

\* {!allBalancesZero && ( <button onClick={() => setIsAssetsToBorrowVisible(...)}> )}
BorrowToggleRendered == ~allBalancesZero

\* {allBalancesZero && ( <p>You must supply assets to make borrow transactions.</p> )}
MustSupplyNotice == allBalancesZero

\* const netWorth = suppliesTotalBalance - borrowsTotalBalance;
netWorth == suppliesTotalBalance - borrowsTotalBalance

\* onClick={() => setIsYourSuppliesVisible(prev => !prev)}
setIsYourSuppliesVisible ==
    /\ isYourSuppliesVisible' = ~isYourSuppliesVisible
    /\ UNCHANGED <<isAssetsToSupplyVisible, isYourBorrowsVissible,
                   isAssetsToBorrowVisible, allBalancesZero, refreshKey,
                   suppliesTotalBalance, borrowsTotalBalance>>
    /\ UNCHANGED <<modalVars, chainId, tableVars, balanceVars, depositVars>>

\* onClick={() => setIsAssetsToSupplyVisible(prev => !prev)}
setIsAssetsToSupplyVisible ==
    /\ isAssetsToSupplyVisible' = ~isAssetsToSupplyVisible
    /\ UNCHANGED <<isYourSuppliesVisible, isYourBorrowsVissible,
                   isAssetsToBorrowVisible, allBalancesZero, refreshKey,
                   suppliesTotalBalance, borrowsTotalBalance>>
    /\ UNCHANGED <<modalVars, chainId, tableVars, balanceVars, depositVars>>

\* onClick={() => setIsYourBorrowsVissible(prev => !prev)}
setIsYourBorrowsVissible ==
    /\ isYourBorrowsVissible' = ~isYourBorrowsVissible
    /\ UNCHANGED <<isYourSuppliesVisible, isAssetsToSupplyVisible,
                   isAssetsToBorrowVisible, allBalancesZero, refreshKey,
                   suppliesTotalBalance, borrowsTotalBalance>>
    /\ UNCHANGED <<modalVars, chainId, tableVars, balanceVars, depositVars>>

\* onClick={() => setIsAssetsToBorrowVisible(prev => !prev)}, on the button
\* rendered while !allBalancesZero
setIsAssetsToBorrowVisible ==
    /\ BorrowToggleRendered
    /\ isAssetsToBorrowVisible' = ~isAssetsToBorrowVisible
    /\ UNCHANGED <<isYourSuppliesVisible, isAssetsToSupplyVisible,
                   isYourBorrowsVissible, allBalancesZero, refreshKey,
                   suppliesTotalBalance, borrowsTotalBalance>>
    /\ UNCHANGED <<modalVars, chainId, tableVars, balanceVars, depositVars>>

\* the mounted YourSupplies calls the setter it was handed
setAllBalancesZero(b) ==
    /\ isYourSuppliesVisible
    /\ b # allBalancesZero
    /\ allBalancesZero' = b
    /\ UNCHANGED <<isYourSuppliesVisible, isAssetsToSupplyVisible,
                   isYourBorrowsVissible, isAssetsToBorrowVisible, refreshKey,
                   suppliesTotalBalance, borrowsTotalBalance>>
    /\ UNCHANGED <<modalVars, chainId, tableVars, balanceVars, depositVars>>

setSuppliesTotalBalance(n) ==
    /\ isYourSuppliesVisible
    /\ n # suppliesTotalBalance
    /\ suppliesTotalBalance' = n
    /\ UNCHANGED <<isYourSuppliesVisible, isAssetsToSupplyVisible,
                   isYourBorrowsVissible, isAssetsToBorrowVisible,
                   allBalancesZero, refreshKey, borrowsTotalBalance>>
    /\ UNCHANGED <<modalVars, chainId, tableVars, balanceVars, depositVars>>

\* the mounted YourBorrows calls the setter it was handed
setBorrowsTotalBalance(n) ==
    /\ isYourBorrowsVissible
    /\ n # borrowsTotalBalance
    /\ borrowsTotalBalance' = n
    /\ UNCHANGED <<isYourSuppliesVisible, isAssetsToSupplyVisible,
                   isYourBorrowsVissible, isAssetsToBorrowVisible,
                   allBalancesZero, refreshKey, suppliesTotalBalance>>
    /\ UNCHANGED <<modalVars, chainId, tableVars, balanceVars, depositVars>>

InitLending ==
    /\ chainId \in ChainIds
    /\ TableStart /\ BalancesStart /\ DepositsStart /\ ModalStart /\ PageStart

NextLending ==
    \/ Remount
    \/ setIsYourSuppliesVisible
    \/ setIsAssetsToSupplyVisible
    \/ setIsYourBorrowsVissible
    \/ setIsAssetsToBorrowVisible
    \/ \E b \in BOOLEAN : setAllBalancesZero(b)
    \/ \E n \in Values : setSuppliesTotalBalance(n)
    \/ \E n \in Values : setBorrowsTotalBalance(n)

SpecLending == InitLending /\ [][NextLending]_vars

\* ================================================================ claims
\* an amount the contract accepts: it parses as a number, is strictly
\* positive, and is at most the balance
Accepted(value, bal) ==
    LET n == parseFloat(value)
        b == parseFloat(bal)
    IN  ~n.nan /\ n.v > 0 /\ ~b.nan /\ n.v <= b.v

\* an approve (submission) call is in flight that was issued before the
\* last handleClose
StaleApproval == approvePending /\ sessApprove # "called"
StaleSupply == supply.status = "pending" /\ sessSupply # "called"

\* C1: while isApproved is false the Supply button is disabled and the step
\* just taken issued no handleSupply call, whatever isValid is
C1_SupplyNeedsApproval ==
    ~isApproved => (SupplyDisabled /\ lastCall # "handleSupply")

C1_Witness ==
    isOpen /\ FormView /\ walletAddress /\ isValid /\ ~isApproved

\* C2: whenever validateAmount runs (the amount changed), isValid is true
\* if and only if the amount parses as a number that is > 0 and <= balance
C2_ValidIffAccepted ==
    [][amount' # amount => (isValid' <=> Accepted(amount', balance))]_vars

\* C3: whenever validateAmount runs, the message is the one of the case:
\* non-numeric or negative, above the balance, zero, accepted; a rejected
\* amount leaves a non-empty message and isValid = false
C3_MessageByCase ==
    [][amount' # amount =>
        LET n == parseFloat(amount')
            b == parseFloat(balance)
        IN  /\ (isNaN(n) \/ Lt(n, Zero)) =>
                  (errorMessage' = MsgPositive /\ ~isValid')
            /\ Gt(n, b) => (errorMessage' = MsgExceeds /\ ~isValid')
            /\ StrictEq(n, Zero) => (errorMessage' = MsgZero /\ ~isValid')
            /\ isValid' => errorMessage' = ""
            /\ ~isValid' => errorMessage' # ""
      ]_vars

C3_Witness ==
    isOpen /\ Gt(parseFloat(amount), parseFloat(balance)) /\ errorMessage = MsgExceeds

\* C4: whenever the Supply button is enabled, and at every handleSupply
\* call, the amount is a positive number not exceeding the current balance
C4_EnabledWithinBalance ==
    ((isOpen /\ FormView /\ ~SupplyDisabled) \/ lastCall = "handleSupply")
        => Accepted(amount, balance)

\* C5: every handleSupply call follows an approve call of the same open
\* session and the observation of its success in that session
C5_ApprovedInSession ==
    lastCall = "handleSupply" => sessApprove = "observed"

\* C6: handleClose leaves the form state at its initial values
C6_CloseResets ==
    [][handleClose =>
        /\ amount' = <<>>
        /\ errorMessage' = ""
        /\ ~isApproved'
        /\ ~isValid'
        /\ data' = Null
        /\ ~isError'
      ]_vars

\* C7: a result of a call issued before handleClose that arrives after it
\* sets none of isApproved, data, isError, errorMessage
C7_LateResultDiscarded ==
    [][((StaleApproval /\ approval'.status \in {"success", "error"}) \/
        (StaleSupply /\ supply'.status \in {"success", "error"}))
          => UNCHANGED <<isApproved, data, isError, errorMessage>>
      ]_vars

\* C8: after a supply call of this session failed, the error view is
\* rendered and shows the provider's message of that failure
C8_SupplyFailureShown ==
    (isOpen /\ sessSupply = "failed") =>
        (ErrorView /\ ErrorViewMessage = supply.error)

\* C9: while the approval has failed, the message of the error view and
\* the text Copy Error copies are the provider's message of that failure
C9_ApprovalErrorVerbatim ==
    (isOpen /\ approveError) =>
        (ErrorViewMessage = approval.error /\ CopyText = approval.error)

\* C10: from a supply success delivered in this session until handleClose,
\* data is non-null, the confirmation is rendered and the form is not
C10_SuccessView ==
    (isOpen /\ sessSupply = "ok") =>
        (data # Null /\ SuccessView /\ ~FormView)

C10_Witness ==
    isOpen /\ sessSupply = "ok" /\ supplyData = TxHash

\* C11: an approve or handleSupply call is issued only by the step of a
\* click on the Approve or Supply button, one call per click; no other
\* step, in particular the arrival of a failure, issues a call
C11_CallsOnlyOnClick ==
    [][/\ lastCall' = "approve" =>
            (handleApproveClick /\ inFlight'.approve = inFlight.approve + 1
                                /\ inFlight'.supply = inFlight.supply)
       /\ lastCall' = "handleSupply" =>
            (handleSupplyClick /\ inFlight'.supply = inFlight.supply + 1
                               /\ inFlight'.approve = inFlight.approve)
       /\ (approveError' /\ ~approveError) => lastCall' = "none"
       /\ (supplyError' /\ ~supplyError) => lastCall' = "none"
       /\ (lastCall' = "none" /\ ~Remount) =>
            (inFlight'.approve <= inFlight.approve
               /\ inFlight'.supply <= inFlight.supply)
      ]_vars

C11_Witness ==
    isOpen /\ sessApprove = "called" /\ approveError /\ inFlight.approve = 0

\* C12: in every open state a control that closes the modal is rendered
C12_CloseReachable ==
    isOpen => CloseControl

\* C18: an approve call is issued only from a state where isValid is true,
\* no approval is pending and isApproved is false; at most one approval
\* call of the instance is in flight
C18_ApproveGuarded ==
    [][/\ lastCall' = "approve" =>
            (isValid /\ ~approvePending /\ ~isApproved /\ ~ApproveDisabled)
       /\ inFlight'.approve <= 1
      ]_vars

C18_Witness ==
    isOpen /\ lastCall = "approve" /\ inFlight.approve = 1 /\ approvePending

\* C19: at most one handleSupply call is in flight
C19_OneSubmission ==
    inFlight.supply <= 1

\* C13: for a network identifier that is not a key of the registry the
\* looked-up list is empty, DepositTable renders no row and YourDeposits
\* renders its placeholder; for a registered identifier the list is the
\* registered one
C13_UnregisteredEmpty ==
    /\ chainId \notin DOMAIN assets =>
          (chainAssets = <<>> /\ Len(TableRows) = 0)
    /\ chainId \notin DOMAIN deposits =>
          (chainDeposits = <<>> /\ YourDepositsView = "placeholder")
    /\ chainId \in DOMAIN assets =>
          (chainAssets = assets[chainId] /\ Len(TableRows) = Len(assets[chainId]))
    /\ chainId \in DOMAIN deposits =>
          (\A i \in DOMAIN depositAssets[chainId] :
              chainDeposits[i].symbol = depositAssets[chainId][i].symbol)
    /\ chainId = 56 => TableRows = <<"WETH", "WBNB">>
    /\ chainId = 137 =>
          TableRows = <<"WETH", "wstETH", "MATICX", "WMATIC", "WBTC">>
    /\ chainId = 8453 => TableRows = <<"WETH", "cbETH">>

C13_Witness ==
    /\ chainId \notin DOMAIN assets
    /\ ~allDepositsZero
    /\ YourDepositsView = "placeholder"

C17_AnyReadMissing ==
    (~batchDeposits.has \/ ~batchMints.has) =>
        /\ \A i \in DOMAIN chainDeposits :
              /\ chainDeposits[i].amount = 0
              /\ chainDeposits[i].minted = 0
              /\ StrictEq(chainDeposits[i].mintingPower, Zero)
        /\ YourDepositsView = "placeholder"

\* C17 amended: each read that has no data contributes zeros (deposited
\* amounts and the placeholder for the deposit read, minted amounts for the
\* mint read, the minting power for its read), and the component renders
\* the table or the placeholder in every state
C17_EachReadDegrades ==
    /\ ~batchDeposits.has =>
          /\ \A i \in DOMAIN chainDeposits : chainDeposits[i].amount = 0
          /\ allDepositsZero
          /\ YourDepositsView = "placeholder"
    /\ ~batchMints.has =>
          \A i \in DOMAIN chainDeposits : chainDeposits[i].minted = 0
    /\ ~checkRemainingMintingPower.has =>
          /\ formattedMintingPower = <<"0">>
          /\ \A i \in DOMAIN chainDeposits :
                StrictEq(chainDeposits[i].mintingPower, Zero)
    /\ YourDepositsView \in {"table", "placeholder"}
    /\ \A i \in DOMAIN chainDeposits :
          ~isNaN(chainDeposits[i].mintingPower)

C17_Witness ==
    /\ chainId \in DOMAIN deposits
    /\ ~batchDeposits.has
    /\ batchMints.has /\ batchMints.v[1] > 0
    /\ checkRemainingMintingPower.has /\ checkRemainingMintingPower.v > 0
    /\ YourDepositsView = "placeholder"

\* C20: whenever a Deposit or Withdraw modal is rendered, its reserve
\* contract and asset contract are those of an asset of the active network
C20_ContractsOfActiveNetwork ==
    (DepositModalRendered \/ WithdrawModalRendered) =>
        \E i \in DOMAIN chainAssets :
            /\ chainAssets[i].houseOfReserveContract = selectedContract
            /\ chainAssets[i].assetContract = selectedAssetContract

\* C15: when the queued updates are applied, the record holds for every
\* token the last balance reported for it, and the entry of a token with
\* no queued update is kept as it was
C15_LastReportedPerToken ==
    [][RenderBalances =>
        /\ balances' = lastReported
        /\ \A t \in DOMAIN balances :
              (\A k \in DOMAIN pendingBalances : pendingBalances[k].tokenAddress # t)
                 => (t \in DOMAIN balances' /\ balances'[t] = balances[t])
      ]_vars

C15_Witness ==
    /\ pendingBalances = <<>>
    /\ \E t1, t2 \in DOMAIN balances :
          t1 # t2 /\ balances[t1] = "1.5" /\ balances[t2] = "0"
    /\ balances = lastReported

\* C22: a click on "Refresh all data" raises refreshKey by exactly 1 and
\* leaves the visibility flags, allBalancesZero and the totals as they
\* were; every mounted table gets the new key; no other step changes
\* refreshKey
C22_RefreshKeyStep ==
    [][/\ Remount =>
            /\ refreshKey' = refreshKey + 1
            /\ UNCHANGED pageFlags
            /\ MountedTables' = MountedTables
            /\ \A t \in MountedTables' : TableKey'[t] = refreshKey + 1
       /\ refreshKey' >= refreshKey
       /\ refreshKey' # refreshKey => Remount
      ]_vars

C22_Witness ==
    /\ refreshKey = 2
    /\ ~allBalancesZero /\ ~isYourBorrowsVissible
    /\ suppliesTotalBalance > 0
    /\ TableKey = [t \in {"YourSupplies", "AssetsToSupply", "AssetsToBorrow"} |-> 2]

\* C30: the AssetsToBorrow table and its toggle are rendered only while
\* allBalancesZero is false; while it is true the notice is shown instead,
\* whatever isAssetsToBorrowVisible is; a step that changes one section's
\* visibility flag changes no other section's flag
C30_BorrowNeedsSupply ==
    [][/\ AssetsToBorrowRendered => ~allBalancesZero
       /\ BorrowToggleRendered => ~allBalancesZero
       /\ allBalancesZero =>
            (~AssetsToBorrowRendered /\ ~BorrowToggleRendered /\ MustSupplyNotice)
       /\ allBalancesZero' =>
            (~AssetsToBorrowRendered' /\ ~BorrowToggleRendered' /\ MustSupplyNotice')
       /\ "AssetsToBorrow" \in MountedTables' => ~allBalancesZero'
       /\ isYourSuppliesVisible' # isYourSuppliesVisible =>
            UNCHANGED <<isAssetsToSupplyVisible, isYourBorrowsVissible,
                        isAssetsToBorrowVisible>>
       /\ isAssetsToSupplyVisible' # isAssetsToSupplyVisible =>
            UNCHANGED <<isYourSuppliesVisible, isYourBorrowsVissible,
                        isAssetsToBorrowVisible>>
       /\ isYourBorrowsVissible' # isYourBorrowsVissible =>
            UNCHANGED <<isYourSuppliesVisible, isAssetsToSupplyVisible,
                        isAssetsToBorrowVisible>>
       /\ isAssetsToBorrowVisible' # isAssetsToBorrowVisible =>
            UNCHANGED <<isYourSuppliesVisible, isAssetsToSupplyVisible,
                        isYourBorrowsVissible>>
      ]_vars

C30_Witness ==
    /\ allBalancesZero /\ ~isAssetsToBorrowVisible /\ ~isAssetsToSupplyVisible
    /\ MustSupplyNotice /\ ~AssetsToBorrowRendered

\* C24: whenever validateAmount runs while the balance prop does not parse
\* as a number, isValid is false, so neither button is enabled
C24_UnparseableBalanceRejects ==
    [][(amount' # amount /\ isNaN(parseFloat(balance))) =>
          (~isValid' /\ ApproveDisabled' /\ SupplyDisabled')
      ]_vars

\* C25: in every open state exactly one of the form, the confirmation and
\* the error view is rendered
C25_ExactlyOneView ==
    isOpen =>
        \/ (FormView /\ ~SuccessView /\ ~ErrorView)
        \/ (~FormView /\ SuccessView /\ ~ErrorView)
        \/ (~FormView /\ ~SuccessView /\ ErrorView)

\* C26: the amount of a handleSupply call is a number not above the amount
\* of the approve call whose success set isApproved
C26_WithinApproved ==
    lastCall = "handleSupply" =>
        LET n == parseFloat(amount)
            a == parseFloat(approveArg)
        IN  ~isNaN(n) /\ ~isNaN(a) /\ n.v <= a.v

\* C28: a click on Approve or Supply while no wallet is connected issues
\* no call and changes no state of the form or of the two hooks
C28_NoWalletNoCall ==
    [][(~walletAddress /\ lastClick' \in {"approve", "supply"}) =>
          /\ lastCall' = "none"
          /\ UNCHANGED <<isOpen, amount, isValid, errorMessage, data, isError,
                         isApproved, showSuccessIcon, approval, supply,
                         inFlight, approveArg>>
      ]_vars

C28_Witness ==
    /\ isOpen /\ ~walletAddress /\ lastClick = "supply"
    /\ isApproved /\ isValid /\ supply = HookIdle /\ lastCall = "none"

\* C21: for every network and symbol listed in both registries, the
\* reserve contract and the asset contract are the same in both (the
\* addresses are compared as written: no two of them differ in letter
\* case only)
C21_SameContracts ==
    \A c \in DOMAIN assets \cap DOMAIN deposits :
        \A i \in DOMAIN assets[c], j \in DOMAIN deposits[c] :
            assets[c][i].name = deposits[c][j].symbol =>
                /\ assets[c][i].houseOfReserveContract =
                       deposits[c][j].houseofReserveContract
                /\ assets[c][i].assetContract = deposits[c][j].assetContract

\* C23: a click on Repay $XOC (the only step that writes to the console)
\* writes its one line and changes nothing else: the mint modal's flag and
\* selection, the reads and the network (all that MintModalRendered and
\* YourDepositsView depend on) and every other component are as before
C23_RepayOnlyLogs ==
    [][consoleLog' # consoleLog =>
          /\ \E i \in DOMAIN chainDeposits :
                consoleLog' = <<"Opening repay modal for", chainDeposits[i].symbol>>
          /\ UNCHANGED <<isMintModalOpen, mintSelectedAsset>>
          /\ UNCHANGED <<batchDeposits, batchMints, checkRemainingMintingPower>>
          /\ UNCHANGED <<chainId, modalVars, pageVars, tableVars, balanceVars>>
      ]_vars

C23_Witness ==
    /\ consoleLog = <<"Opening repay modal for", "WBTC">>
    /\ ~isMintModalOpen /\ mintSelectedAsset = NoAsset
    /\ YourDepositsView = "table"

\* C27: a modal's flag is set only while selectedAsset and selectedContract
\* are non-null, and the two modals are never rendered together
C27_FlagImpliesSelection ==
    /\ isModalOpen => (selectedAsset # Null /\ selectedContract # Null)
    /\ isWithdrawModalOpen => (selectedAsset # Null /\ selectedContract # Null)
    /\ isModalOpen <=> DepositModalRendered
    /\ isWithdrawModalOpen <=> WithdrawModalRendered
    /\ ~(DepositModalRendered /\ WithdrawModalRendered)

\* C29: the deposits table is rendered only if a displayed row has a
\* non-zero deposited amount; with every displayed amount zero, or on an
\* unregistered network, the placeholder is rendered
C29_TableOnlyIfNonZeroRow ==
    /\ YourDepositsView = "table" =>
          \E i \in DOMAIN chainDeposits : chainDeposits[i].amount # 0
    /\ ((\A i \in DOMAIN chainDeposits : chainDeposits[i].amount = 0)
          \/ chainId \notin DOMAIN deposits) =>
          YourDepositsView = "placeholder"

====
